---- MODULE Spec2Model ----
(***************************************************************************)
(* Model of clients/openai_client.py: the OpenAIClient singleton.          *)
(*                                                                         *)
(* The class-level slot _instance, the class-level threading lock, the     *)
(* attributes of every allocated object, and the position of every caller  *)
(* inside __new__, async_init, create, get_instance and the seven request  *)
(* methods are the state.  Each statement of the code is one action.       *)
(*                                                                         *)
(* The specifications run the same statement actions:                      *)
(*   Spec         callers are tasks of one asyncio event loop: a task runs *)
(*                from one await to the next without interruption;         *)
(*   SpecThreads  callers are threads: any statement of one thread may be  *)
(*                followed by a statement of another;                      *)
(*   LiveSpec     the tasks of Spec in the constructor, create() and       *)
(*                get_instance(), each ready task eventually run;          *)
(*   SpecContent  one task, remote responses drawn from the large set of   *)
(*                response texts.                                          *)
(***************************************************************************)
EXTENDS Integers, Sequences, FiniteSets, TLC

(* ------------------------------ bounds -------------------------------- *)
NCallers == 2        \* concurrent callers (tasks or threads)
MaxRetrieves == 4    \* cap of the retrieval counter (above what the code reaches)
MaxLen == 2          \* every response text up to this length is tried

Callers == 1..NCallers

(* --------------------------- python values ---------------------------- *)
Unset == "unset"
PyNone == <<"None">>
PyStr(s) == <<"str", s>>
PyBool(b) == <<"bool", b>>
PyObj(o) == <<"OpenAIClient", o>>

NoCall == <<"none">>
Return(v) == <<"return", v>>
Raise(e) == <<"raise", e>>

(* core.config: the three (model id, temperature) pairs *)
COT_MODEL == <<"COT_MODEL_ID", "COT_MODEL_TEMP">>
MSG_MODEL == <<"MSG_MODEL_ID", "MSG_MODEL_TEMP">>
IMG_MODEL == <<"IMG_MODEL_ID", "IMG_MODEL_TEMP">>
UnsetPair == <<Unset, Unset>>

(* an object fresh out of object.__new__: no attribute assigned yet *)
NewObject ==
  [ initialized |-> Unset,
    client      |-> 0,
    assistant   |-> Unset,
    cot         |-> UnsetPair,
    msg         |-> UnsetPair,
    img         |-> UnsetPair ]

VARIABLES
  instance,      \* cls._instance: 0 is None, otherwise the object's id
  lock,          \* cls._lock: 0 is free, otherwise the caller holding it
  objs,          \* the objects allocated by __new__, by id
  nclients,      \* openai.AsyncOpenAI handles constructed so far
  retrieves,     \* remote assistants.retrieve calls issued so far
  pc,            \* per caller: the statement it is about to execute
  op,            \* per caller: the public call it is inside (or left last)
  inst,          \* per caller: its local `instance` / `self`
  ret,           \* per caller: how its last public call ended
  resp,          \* per caller: the remote response its request received
  alock,         \* per caller: its asyncio.Lock() of line 28 is held
  late,          \* per caller: its call started after some create() returned
  running,       \* the task the event loop is running (0: none)
  preemptive,    \* callers are threads (TRUE) or tasks of one loop (FALSE)
  firstCreated,  \* the object the first completed create() returned (0: none)
  firstCfg       \* the attributes of that object at that return

vars == << instance, lock, objs, nclients, retrieves, pc, op, inst, ret, resp,
           alock, late, running, preemptive, firstCreated, firstCfg >>

shared == << instance, lock, objs, nclients, retrieves >>
history == << firstCreated, firstCfg >>

Start ==
  /\ instance = 0
  /\ lock = 0
  /\ objs = << >>
  /\ nclients = 0
  /\ retrieves = 0
  /\ pc = [c \in Callers |-> "idle"]
  /\ op = [c \in Callers |-> "none"]
  /\ inst = [c \in Callers |-> 0]
  /\ ret = [c \in Callers |-> NoCall]
  /\ resp = [c \in Callers |-> NoCall]
  /\ alock = [c \in Callers |-> FALSE]
  /\ late = [c \in Callers |-> FALSE]
  /\ running = 0
  /\ firstCreated = 0
  /\ firstCfg = NewObject

(* callers are tasks of one event loop *)
Init == Start /\ preemptive = FALSE

(* callers are threads *)
InitThreads == Start /\ preemptive = TRUE

(* the statements at which a task is not running: between two calls, or
   suspended in an await on the remote service *)
Suspended == {"idle", "await34", "awaitreq"}

(* caller c is about to execute statement l and may take a step: a thread
   always may, a task only while no other task is between two awaits *)
At(c, l) ==
  /\ pc[c] = l
  /\ preemptive \/ running \in {0, c}

(* caller c goes on at statement l; a task keeps the loop until it awaits *)
Goto(c, l) ==
  /\ pc' = [pc EXCEPT ![c] = l]
  /\ running' = IF preemptive \/ l \in Suspended THEN 0 ELSE c
  /\ preemptive' = preemptive
SetAttr(o, f, v) == objs' = [objs EXCEPT ![o][f] = v]

(* ------------------------- entering a call ---------------------------- *)
(* OpenAIClient() *)
StartCtor(c) ==
  /\ At(c, "idle")
  /\ op' = [op EXCEPT ![c] = "ctor"]
  /\ ret' = [ret EXCEPT ![c] = NoCall]
  /\ resp' = [resp EXCEPT ![c] = NoCall]
  /\ late' = [late EXCEPT ![c] = (firstCreated # 0)]
  /\ Goto(c, "new18")
  /\ UNCHANGED << shared, inst, alock, history >>

(* OpenAIClient.create(): line 55 calls cls() *)
StartCreate(c) ==
  /\ At(c, "idle")
  /\ op' = [op EXCEPT ![c] = "create"]
  /\ ret' = [ret EXCEPT ![c] = NoCall]
  /\ resp' = [resp EXCEPT ![c] = NoCall]
  /\ late' = [late EXCEPT ![c] = (firstCreated # 0)]
  /\ Goto(c, "new18")
  /\ UNCHANGED << shared, inst, alock, history >>

(* OpenAIClient.get_instance(): line 62 calls cls() *)
StartGet(c) ==
  /\ At(c, "idle")
  /\ op' = [op EXCEPT ![c] = "get_instance"]
  /\ ret' = [ret EXCEPT ![c] = NoCall]
  /\ resp' = [resp EXCEPT ![c] = NoCall]
  /\ late' = [late EXCEPT ![c] = (firstCreated # 0)]
  /\ Goto(c, "new18")
  /\ UNCHANGED << shared, inst, alock, history >>

(* ------------------------------ __new__ ------------------------------- *)
(* line 18: if cls._instance is None (read without the lock) *)
New18(c) ==
  /\ At(c, "new18")
  /\ Goto(c, IF instance = 0 THEN "new19" ELSE "new23")
  /\ UNCHANGED << shared, op, inst, ret, resp, alock, late, history >>

(* line 19: with cls._lock: blocks while another caller holds the lock *)
New19(c) ==
  /\ At(c, "new19")
  /\ lock = 0
  /\ lock' = c
  /\ Goto(c, "new20")
  /\ UNCHANGED << instance, objs, nclients, retrieves, op, inst, ret, resp,
                  alock, late, history >>

(* a singleton without the second check *)
InnerCheck_Skipped == TRUE

(* line 20: the test of the second check *)
InnerCheck == instance = 0

(* line 20: if cls._instance is None, under the lock *)
New20(c) ==
  /\ At(c, "new20")
  /\ Goto(c, IF InnerCheck THEN "new21" ELSE "newexit")
  /\ UNCHANGED << shared, op, inst, ret, resp, alock, late, history >>

(* line 21: cls._instance = super().__new__(cls) *)
New21(c) ==
  /\ At(c, "new21")
  /\ objs' = Append(objs, NewObject)
  /\ instance' = Len(objs) + 1
  /\ Goto(c, "new22")
  /\ UNCHANGED << lock, nclients, retrieves, op, inst, ret, resp, alock, late,
                  history >>

(* line 22: cls._instance._initialized = False *)
New22(c) ==
  /\ At(c, "new22")
  /\ SetAttr(instance, "initialized", "False")
  /\ Goto(c, "newexit")
  /\ UNCHANGED << instance, lock, nclients, retrieves, op, inst, ret, resp,
                  alock, late, history >>

(* leaving the with block of line 19 releases cls._lock *)
NewExit(c) ==
  /\ At(c, "newexit")
  /\ lock' = 0
  /\ Goto(c, "new23")
  /\ UNCHANGED << instance, objs, nclients, retrieves, op, inst, ret, resp,
                  alock, late, history >>

(* line 23: return cls._instance; the caller goes on in the method that
   called cls(): OpenAIClient() returns, create goes to line 56,
   get_instance to line 63 *)
New23(c) ==
  /\ At(c, "new23")
  /\ inst' = [inst EXCEPT ![c] = instance]
  /\ IF op[c] = "ctor"
       THEN /\ ret' = [ret EXCEPT ![c] = Return(PyObj(instance))]
            /\ Goto(c, "idle")
       ELSE /\ ret' = ret
            /\ Goto(c, IF op[c] = "create" THEN "init27" ELSE "get63")
  /\ UNCHANGED << shared, op, resp, alock, late, history >>

(* ----------------------------- async_init ----------------------------- *)
(* reading self._initialized: an attribute never assigned raises
   AttributeError, otherwise the stored boolean is read *)
ReadFlag(o) == objs[o].initialized

(* line 27: if not self._initialized; the AttributeError of an instance that
   has no flag yet propagates out of create() *)
Init27(c) ==
  /\ At(c, "init27")
  /\ CASE ReadFlag(inst[c]) = Unset ->
            /\ ret' = [ret EXCEPT ![c] = Raise("AttributeError")]
            /\ Goto(c, "idle")
       [] ReadFlag(inst[c]) = "False" ->
            /\ ret' = ret
            /\ Goto(c, "init28")
       [] ReadFlag(inst[c]) = "True" ->
            /\ ret' = ret
            /\ Goto(c, "create57")
  /\ UNCHANGED << shared, op, inst, resp, alock, late, history >>

(* line 28: async with asyncio.Lock(): the lock is constructed by this very
   call, so it is free and is taken without suspending *)
Init28(c) ==
  /\ At(c, "init28")
  /\ alock' = [alock EXCEPT ![c] = TRUE]
  /\ Goto(c, "init29")
  /\ UNCHANGED << shared, op, inst, ret, resp, late, history >>

(* line 29: if not self._initialized, inside the async with *)
Init29(c) ==
  /\ At(c, "init29")
  /\ Goto(c, IF ReadFlag(inst[c]) = "True" THEN "initexit" ELSE "init30")
  /\ UNCHANGED << shared, op, inst, ret, resp, alock, late, history >>

(* line 30: self.client = openai.AsyncOpenAI(api_key=OPENAI_API_KEY) *)
Init30(c) ==
  /\ At(c, "init30")
  /\ nclients' = nclients + 1
  /\ SetAttr(inst[c], "client", nclients + 1)
  /\ Goto(c, "init34")
  /\ UNCHANGED << instance, lock, retrieves, op, inst, ret, resp, alock, late,
                  history >>

(* line 34, the call: self.client.beta.assistants.retrieve(ASSISTANT_ID) is
   sent and the task suspends in the await *)
Init34(c) ==
  /\ At(c, "init34")
  /\ retrieves < MaxRetrieves
  /\ retrieves' = retrieves + 1
  /\ Goto(c, "await34")
  /\ UNCHANGED << instance, lock, objs, nclients, op, inst, ret, resp, alock,
                  late, history >>

(* line 34, the await: the remote call returns the assistant or raises *)
Await34(c) ==
  /\ At(c, "await34")
  /\ \E outcome \in {"returns", "raises"} :
       Goto(c, IF outcome = "returns" THEN "assign34" ELSE "init38")
  /\ UNCHANGED << shared, op, inst, ret, resp, alock, late, history >>

(* line 34, the assignment: self.assistant = <the retrieved assistant> *)
Assign34(c) ==
  /\ At(c, "assign34")
  /\ SetAttr(inst[c], "assistant", "ASSISTANT")
  /\ Goto(c, "init41")
  /\ UNCHANGED << instance, lock, nclients, retrieves, op, inst, ret, resp,
                  alock, late, history >>

(* an except clause that lets the retrieval error end create() *)
Init38_Propagates(c) ==
  /\ At(c, "init38")
  /\ ret' = [ret EXCEPT ![c] = Raise("Exception")]
  /\ alock' = [alock EXCEPT ![c] = FALSE]
  /\ Goto(c, "idle")
  /\ UNCHANGED << shared, op, inst, resp, late, history >>

(* lines 36-38: except Exception: log, self.assistant = None *)
Init38(c) ==
  /\ At(c, "init38")
  /\ SetAttr(inst[c], "assistant", "None")
  /\ Goto(c, "init41")
  /\ UNCHANGED << instance, lock, nclients, retrieves, op, inst, ret, resp,
                  alock, late, history >>

(* lines 41-42: chain_of_thought_model_id, chain_of_thought_temp *)
Init41(c) ==
  /\ At(c, "init41")
  /\ SetAttr(inst[c], "cot", COT_MODEL)
  /\ Goto(c, "init44")
  /\ UNCHANGED << instance, lock, nclients, retrieves, op, inst, ret, resp,
                  alock, late, history >>

(* lines 44-45: message_model_id, message_model_temp *)
Init44(c) ==
  /\ At(c, "init44")
  /\ SetAttr(inst[c], "msg", MSG_MODEL)
  /\ Goto(c, "init47")
  /\ UNCHANGED << instance, lock, nclients, retrieves, op, inst, ret, resp,
                  alock, late, history >>

(* lines 47-48: image_model_id, image_model_temp *)
Init47(c) ==
  /\ At(c, "init47")
  /\ SetAttr(inst[c], "img", IMG_MODEL)
  /\ Goto(c, "init50")
  /\ UNCHANGED << instance, lock, nclients, retrieves, op, inst, ret, resp,
                  alock, late, history >>

(* line 50: self._initialized = True *)
Init50(c) ==
  /\ At(c, "init50")
  /\ SetAttr(inst[c], "initialized", "True")
  /\ Goto(c, "initexit")
  /\ UNCHANGED << instance, lock, nclients, retrieves, op, inst, ret, resp,
                  alock, late, history >>

(* leaving the async with of line 28 releases the call's own lock *)
InitExit(c) ==
  /\ At(c, "initexit")
  /\ alock' = [alock EXCEPT ![c] = FALSE]
  /\ Goto(c, "create57")
  /\ UNCHANGED << shared, op, inst, ret, resp, late, history >>

(* ------------------------------- create ------------------------------- *)
(* line 57: return instance *)
Create57(c) ==
  /\ At(c, "create57")
  /\ ret' = [ret EXCEPT ![c] = Return(PyObj(inst[c]))]
  /\ firstCreated' = IF firstCreated = 0 THEN inst[c] ELSE firstCreated
  /\ firstCfg' = IF firstCreated = 0 THEN objs[inst[c]] ELSE firstCfg
  /\ Goto(c, "idle")
  /\ UNCHANGED << shared, op, inst, resp, alock, late >>

(* ---------------------------- get_instance ---------------------------- *)
(* lines 63-67: if not instance._initialized: raise RuntimeError;
   return instance *)
Get63(c) ==
  /\ At(c, "get63")
  /\ ret' = [ret EXCEPT ![c] =
               CASE ReadFlag(inst[c]) = Unset -> Raise("AttributeError")
                 [] ReadFlag(inst[c]) = "False" -> Raise("RuntimeError")
                 [] ReadFlag(inst[c]) = "True" -> Return(PyObj(inst[c]))]
  /\ Goto(c, "idle")
  /\ UNCHANGED << shared, op, inst, resp, alock, late, history >>

(* ------------------------------ strings ------------------------------- *)
(* a python str is the tuple of its characters *)
Whitespace == {" ", "\t", "\n", "\r", "\f"}
UpperCase == <<"A", "B", "C", "D", "E", "F", "G", "H", "I", "J", "K", "L", "M", "N", "O", "P", "Q", "R", "S", "T", "U", "V", "W", "X", "Y", "Z">>
LowerCase == <<"a", "b", "c", "d", "e", "f", "g", "h", "i", "j", "k", "l", "m", "n", "o", "p", "q", "r", "s", "t", "u", "v", "w", "x", "y", "z">>

LowerChar(ch) ==
  IF \E i \in 1..Len(UpperCase) : UpperCase[i] = ch
    THEN LowerCase[CHOOSE i \in 1..Len(UpperCase) : UpperCase[i] = ch]
    ELSE ch

(* str.lower() *)
Lower(s) == [i \in 1..Len(s) |-> LowerChar(s[i])]

RECURSIVE LStrip(_)
LStrip(s) ==
  IF s # << >> /\ Head(s) \in Whitespace THEN LStrip(Tail(s)) ELSE s

RECURSIVE RStrip(_)
RStrip(s) ==
  IF s # << >> /\ s[Len(s)] \in Whitespace
    THEN RStrip(SubSeq(s, 1, Len(s) - 1))
    ELSE s

(* str.strip() *)
Strip(s) == RStrip(LStrip(s))

NoDescription == <<"N", "o", " ", "d", "e", "s", "c", "r", "i", "p", "t", "i", "o", "n", " ", "a", "v", "a", "i", "l", "a", "b", "l", "e">>
NoSummary == <<"N", "o", " ", "s", "u", "m", "m", "a", "r", "y", " ", "a", "v", "a", "i", "l", "a", "b", "l", "e">>
MESSAGE == <<"m", "e", "s", "s", "a", "g", "e">>
GIF == <<"g", "i", "f">>
YOUTUBE == <<"y", "o", "u", "t", "u", "b", "e">>
WEBSITE == <<"w", "e", "b", "s", "i", "t", "e">>

(* line 222: ["message", "gif", "youtube", "website"] *)
ContentTypes == {MESSAGE, GIF, YOUTUBE, WEBSITE}

(* -------------------------- remote responses -------------------------- *)
(* what an awaited remote call does: it raises, or it returns a thread
   (with its id), a plain acknowledgement, or a chat completion (with its
   list of choices, each the message.content of that choice: a str or None) *)
Raised == <<"raise">>
Thread(id) == <<"thread", id>>
Ack == <<"ok">>
Completion(choices) == <<"completion", choices>>

ChatMethods ==
  {"image_describer", "text_summarizer", "link_summarizer",
   "determine_content_type"}
RequestMethods ==
  {"create_asst_thread", "add_to_asst_thread", "request_asst_response"}
    \cup ChatMethods

(* ------------------ the request methods, after the await ------------------ *)
(* lines 78-82 *)
CreateAsstThread(r) ==
  IF r = Raised THEN PyNone ELSE PyStr(r[2])

(* lines 93-102 *)
AddToAsstThread(r) ==
  IF r = Raised THEN PyBool(FALSE) ELSE PyBool(TRUE)

(* lines 236-243: the method has no return statement *)
RequestAsstResponse(r) == PyNone

(* lines 137-141: response.choices[0].message.content if response.choices
   else "No description available" *)
ImageDescriber(r) ==
  IF r = Raised THEN PyStr(NoDescription)
  ELSE IF r[2] # << >> THEN r[2][1]
  ELSE PyStr(NoDescription)

(* lines 163-167: .strip() of a content that is None raises AttributeError,
   which the except clause turns into the fixed string *)
TextSummarizer(r) ==
  IF r = Raised THEN PyStr(NoSummary)
  ELSE IF r[2] # << >>
    THEN IF r[2][1] = PyNone THEN PyStr(NoSummary)
         ELSE PyStr(Strip(r[2][1][2]))
  ELSE PyStr(NoSummary)

(* lines 190-194 *)
LinkSummarizer(r) ==
  IF r = Raised THEN PyStr(NoSummary)
  ELSE IF r[2] # << >>
    THEN IF r[2][1] = PyNone THEN PyStr(NoSummary)
         ELSE PyStr(Strip(r[2][1][2]))
  ELSE PyStr(NoSummary)

(* a classifier that compares the word as the service spelt it *)
Normalize_CaseKept(s) == Strip(s)

(* line 220: response.choices[0].message.content.strip().lower() *)
Normalize(s) == Lower(Strip(s))

(* lines 220-230: choices[0] of an empty list raises IndexError and .strip()
   of None raises AttributeError; both end in the except clause *)
DetermineContentType(r) ==
  IF r = Raised THEN PyNone
  ELSE IF r[2] = << >> THEN PyNone
  ELSE IF r[2][1] = PyNone THEN PyNone
  ELSE IF Normalize(r[2][1][2]) \in ContentTypes
    THEN PyStr(Normalize(r[2][1][2]))
  ELSE PyNone

Result(m, r) ==
  CASE m = "create_asst_thread" -> CreateAsstThread(r)
    [] m = "add_to_asst_thread" -> AddToAsstThread(r)
    [] m = "request_asst_response" -> RequestAsstResponse(r)
    [] m = "image_describer" -> ImageDescriber(r)
    [] m = "text_summarizer" -> TextSummarizer(r)
    [] m = "link_summarizer" -> LinkSummarizer(r)
    [] m = "determine_content_type" -> DetermineContentType(r)

(* what the except clause of each method returns *)
Sentinel(m) == Result(m, Raised)

(* ------------------ the request methods, up to the await ------------------ *)
(* the attributes of self a method reads while it builds its remote call *)
Reads(m) ==
  CASE m = "image_describer" -> {"img"}
    [] m \in {"text_summarizer", "link_summarizer"} -> {"msg"}
    [] m = "determine_content_type" -> {"cot"}
    [] OTHER -> {}

HasClient(o) == objs[o].client # 0
CanCall(o, m) == HasClient(o) /\ \A f \in Reads(m) : objs[o][f] # UnsetPair

(* a request method is called on the instance the caller holds *)
StartRequest(c) ==
  /\ At(c, "idle")
  /\ inst[c] # 0
  /\ \E m \in RequestMethods :
       /\ op' = [op EXCEPT ![c] = m]
       /\ Goto(c, IF m = "request_asst_response" THEN "req233" ELSE "reqcall")
  /\ ret' = [ret EXCEPT ![c] = NoCall]
  /\ resp' = [resp EXCEPT ![c] = NoCall]
  /\ late' = [late EXCEPT ![c] = (firstCreated # 0)]
  /\ UNCHANGED << shared, inst, alock, history >>

(* line 233 of request_asst_response: self.client.beta.threads.update, an
   expression statement in front of the try *)
Req233(c) ==
  /\ At(c, "req233")
  /\ IF HasClient(inst[c])
       THEN /\ ret' = ret
            /\ Goto(c, "reqcall")
       ELSE /\ ret' = [ret EXCEPT ![c] = Raise("AttributeError")]
            /\ Goto(c, "idle")
  /\ UNCHANGED << shared, op, inst, resp, alock, late, history >>

(* the remote call inside the try of each method (lines 78, 93, 114, 154,
   181, 214, 236): an attribute of self that is not assigned raises
   AttributeError, the except clause returns the method's sentinel;
   otherwise the call is sent and the task suspends in the await *)
ReqCall(c) ==
  /\ At(c, "reqcall")
  /\ IF CanCall(inst[c], op[c])
       THEN /\ ret' = ret
            /\ Goto(c, "awaitreq")
       ELSE /\ ret' = [ret EXCEPT ![c] = Return(Sentinel(op[c]))]
            /\ Goto(c, "idle")
  /\ UNCHANGED << shared, op, inst, resp, alock, late, history >>

(* the await of the remote call ends with response r and the method runs to
   its return *)
Receive(c, r) ==
  /\ At(c, "awaitreq")
  /\ resp' = [resp EXCEPT ![c] = r]
  /\ ret' = [ret EXCEPT ![c] = Return(Result(op[c], r))]
  /\ Goto(c, "idle")
  /\ UNCHANGED << shared, op, inst, alock, late, history >>

(* ------------------------ sets of remote responses ------------------------ *)
ThreadId == <<"t", "h", "r", "e", "a", "d", "_", "1">>

Pads == {<< >>, <<" ">>, <<"\n">>, <<"\t", " ">>}
Words ==
  { <<"m", "e", "s", "s", "a", "g", "e">>,
    <<"M", "e", "s", "s", "a", "g", "e">>,
    <<"g", "i", "f">>,
    <<"G", "I", "F">>,
    <<"G", "i", "f">>,
    <<"y", "o", "u", "t", "u", "b", "e">>,
    <<"Y", "o", "u", "T", "u", "b", "e">>,
    <<"w", "e", "b", "s", "i", "t", "e">>,
    <<"W", "e", "b", "s", "i", "t", "e">>,
    <<"W", "E", "B", "S", "I", "T", "E">>,
    <<"M", "a", "y", "b", "e", "?">>,
    <<"g", "i", "f", "s">>,
    <<"g", "i", " ", "f">>,
    <<"A", " ", "r", "e", "d", " ", "b", "i", "c", "y", "c", "l", "e", ".">> }
Padded == {l \o w \o r : l \in Pads, w \in Words, r \in Pads}

Alphabet == {" ", "\n", "a", "A", "?"}
RECURSIVE Strings(_)
Strings(n) ==
  IF n = 0 THEN {<< >>}
  ELSE LET shorter == Strings(n - 1)
       IN  shorter \cup {Append(s, ch) : s \in shorter, ch \in Alphabet}

Texts == Padded \cup Strings(MaxLen)
Contents == {PyNone} \cup {PyStr(s) : s \in Texts}

(* choices: none, one, or two (only the first is read) *)
ChoiceLists ==
  {<< >>} \cup {<<x>> : x \in Contents}
          \cup {<<x, PyStr(GIF)>> : x \in {PyNone, PyStr(<<" ", "a">>)}}

FewChoiceLists ==
  {<< >>, <<PyStr(<<" ", "G", "I", "F">>)>>, <<PyNone>>}

Responses(m, lists) ==
  CASE m = "create_asst_thread" -> {Raised, Thread(ThreadId)}
    [] m \in {"add_to_asst_thread", "request_asst_response"} -> {Raised, Ack}
    [] OTHER -> {Raised} \cup {Completion(l) : l \in lists}

(* the remote call of a request method completes *)
AwaitRequest(c) == \E r \in Responses(op[c], FewChoiceLists) : Receive(c, r)

(* the same, over every response text of the bounded set *)
AwaitRequestText(c) == \E r \in Responses(op[c], ChoiceLists) : Receive(c, r)

(* --------------------------- specifications --------------------------- *)
Lifecycle(c) ==
  \/ StartCtor(c)
  \/ StartCreate(c)
  \/ StartGet(c)
  \/ New18(c)
  \/ New19(c)
  \/ New20(c)
  \/ New21(c)
  \/ New22(c)
  \/ NewExit(c)
  \/ New23(c)
  \/ Init27(c)
  \/ Init28(c)
  \/ Init29(c)
  \/ Init30(c)
  \/ Init34(c)
  \/ Await34(c)
  \/ Assign34(c)
  \/ Init38(c)
  \/ Init41(c)
  \/ Init44(c)
  \/ Init47(c)
  \/ Init50(c)
  \/ InitExit(c)
  \/ Create57(c)
  \/ Get63(c)

Requests(c) ==
  \/ StartRequest(c)
  \/ Req233(c)
  \/ ReqCall(c)

(* tasks of one event loop *)
Next == \E c \in Callers : Lifecycle(c) \/ Requests(c) \/ AwaitRequest(c)
Spec == Init /\ [][Next]_vars

(* threads in the constructor, create() and get_instance() *)
NextThreads == \E c \in Callers : Lifecycle(c)
SpecThreads == InitThreads /\ [][NextThreads]_vars

(* tasks of one event loop in the constructor, create() and get_instance();
   the loop runs every task that is ready, so a task that is ready again and
   again is eventually run *)
Continue(c) ==
  \/ New18(c)
  \/ New19(c)
  \/ New20(c)
  \/ New21(c)
  \/ New22(c)
  \/ NewExit(c)
  \/ New23(c)
  \/ Init27(c)
  \/ Init28(c)
  \/ Init29(c)
  \/ Init30(c)
  \/ Init34(c)
  \/ Await34(c)
  \/ Assign34(c)
  \/ Init38(c)
  \/ Init41(c)
  \/ Init44(c)
  \/ Init47(c)
  \/ Init50(c)
  \/ InitExit(c)
  \/ Create57(c)
  \/ Get63(c)
NextLoop == \E c \in Callers : Lifecycle(c)
LiveSpec ==
  Init /\ [][NextLoop]_vars /\ \A c \in Callers : SF_vars(Continue(c))

(* one task, every response text *)
NextContent == \E c \in {1} : Lifecycle(c) \/ Requests(c) \/ AwaitRequestText(c)
SpecContent == Init /\ [][NextContent]_vars

(* ------------------------------ properties ---------------------------- *)
Objects == 1..Len(objs)

(* every attribute async_init assigns is assigned *)
Assigned(o) ==
  /\ objs[o].initialized = "True"
  /\ objs[o].client # 0
  /\ objs[o].assistant # Unset
  /\ objs[o].cot # UnsetPair
  /\ objs[o].msg # UnsetPair
  /\ objs[o].img # UnsetPair

(* the configuration of an object: handle, assistant, three model pairs *)
Config(o) == << o.client, o.assistant, o.cot, o.msg, o.img >>

Ended(c, m) == op[c] = m /\ pc[c] = "idle" /\ ret[c] # NoCall

(* C1: however many create() calls run concurrently on one event loop, the
   remote retrieval of the assistant is issued at most once. *)
C1_SingleRetrieval == retrieves <= 1

(* C2: once the initialized flag of the instance is true, no later step of
   any caller writes a different connection handle, assistant reference or
   model pair. *)
C2_ConfigFrozen ==
  [][\A o \in Objects :
       objs[o].initialized = "True" => Config(objs'[o]) = Config(objs[o])]_vars

(* C3: get_instance() ends in the not-initialized RuntimeError or returns an
   instance whose flag is true and whose client, assistant and model fields
   are all assigned; a call made after some create() returned returns the
   instance that create() returned. *)
C3_GetInstanceReady ==
  \A c \in Callers :
    Ended(c, "get_instance") =>
      /\ ret[c] \in {Raise("RuntimeError")} \cup {Return(PyObj(o)) : o \in Objects}
      /\ \A o \in Objects : ret[c] = Return(PyObj(o)) => Assigned(o)
      /\ late[c] => ret[c] = Return(PyObj(firstCreated))

(* C4: none of the seven request methods raises, in any lifecycle state of
   the instance it is called on and for any outcome of the remote call. *)
C4_NoErrorPropagates ==
  \A c \in Callers : op[c] \in RequestMethods => ret[c][1] # "raise"

(* C5: every create() call eventually returns the instance; when it has
   returned the flag is true and the client, the assistant slot and the
   three model pairs are assigned; a retrieval that failed stores the
   assistant as absent and initialization goes on. *)
C5_CreateReturns ==
  /\ \A c \in Callers :
       (op[c] = "create" /\ pc[c] # "idle")
          ~> (Ended(c, "create") /\ ret[c] = Return(PyObj(instance)))
  /\ [](\A c \in Callers :
          Ended(c, "create") =>
            /\ ret[c] = Return(PyObj(inst[c]))
            /\ Assigned(inst[c]))
  /\ [][\A c \in Callers :
          (pc[c] = "init38" /\ pc'[c] # "init38") =>
            /\ pc'[c] = "init41"
            /\ objs'[inst[c]].assistant = "None"]_vars

(* a create() returned the initialized instance after its retrieval failed,
   while a second create() was in flight *)
C5_Witness ==
  \E c \in Callers :
    /\ Ended(c, "create")
    /\ ret[c] = Return(PyObj(instance))
    /\ Assigned(instance)
    /\ objs[instance].assistant = "None"
    /\ retrieves >= 2

(* C6: a create() call that starts after an earlier create() has returned
   issues no retrieval, writes no field, and returns the same instance with
   the configuration the first call produced. *)
C6_CreateIdempotent ==
  [][\A c \in Callers :
       (late[c] /\ op[c] = "create" /\ pc[c] # "idle" /\ pc'[c] # pc[c]) =>
         /\ objs' = objs
         /\ retrieves' = retrieves
         /\ nclients' = nclients
         /\ instance' = instance
         /\ pc'[c] = "idle" =>
              /\ ret'[c] = Return(PyObj(firstCreated))
              /\ Config(objs[firstCreated]) = Config(firstCfg)]_vars

(* C7: under every interleaving of threads in OpenAIClient(), create() and
   get_instance(), __new__ allocates at most one object, the class-level
   slot once set is never replaced, and every call that returns an instance
   returns the object in the slot. *)
C7_OneInstance ==
  /\ [](/\ Len(objs) <= 1
        /\ \A c \in Callers :
             /\ inst[c] # 0 => inst[c] = instance
             /\ \A o \in Objects : ret[c] = Return(PyObj(o)) => o = instance)
  /\ [][instance # 0 => instance' = instance]_vars

(* a thread that found the slot empty at line 18 finds it set at line 20,
   and another thread already holds the instance *)
C7_Witness ==
  \E c, d \in Callers :
    /\ c # d
    /\ pc[c] = "new20"
    /\ instance # 0
    /\ inst[d] = instance

(* text s, stripped of the whitespace at its two ends and with its letters
   lower-cased, is the word w *)
CaseEq(a, b) ==
  a = b \/ \E i \in 1..Len(UpperCase) : UpperCase[i] = a /\ LowerCase[i] = b
Same(a, b) == a = b
Trims(s, w, Eq(_, _)) ==
  \E i \in 1..(Len(s) + 1) :
    LET j == i + Len(w) - 1
    IN  /\ j <= Len(s)
        /\ \A k \in 1..(i - 1) : s[k] \in Whitespace
        /\ \A k \in (j + 1)..Len(s) : s[k] \in Whitespace
        /\ \A k \in 1..Len(w) : Eq(s[i + k - 1], w[k])
TrimsTo(s, w) == Trims(s, w, CaseEq)

FirstText(r) ==
  IF r[1] = "completion" /\ r[2] # << >> /\ r[2][1] # PyNone
    THEN {r[2][1][2]}
    ELSE {}

(* C8: determine_content_type returns one of the four words or None; it
   returns word w exactly when the call succeeded and the first choice's
   text, trimmed and lower-cased, is w ("GIF" gives "gif"); it returns None
   for any other text ("Maybe?"), for no choices and for a raised error. *)
C8_ContentType ==
  \A c \in Callers :
    Ended(c, "determine_content_type") =>
      /\ ret[c] \in {Return(PyNone)} \cup {Return(PyStr(w)) : w \in ContentTypes}
      /\ \A w \in ContentTypes :
           ret[c] = Return(PyStr(w))
             <=> \E s \in FirstText(resp[c]) : TrimsTo(s, w)
      /\ resp[c] = Completion(<<PyStr(<<"G", "I", "F">>)>>)
           => ret[c] = Return(PyStr(GIF))
      /\ resp[c] = Completion(<<PyStr(<<"M", "a", "y", "b", "e", "?">>)>>)
           => ret[c] = Return(PyNone)

(* the service answered " GIF" with surrounding whitespace and the method
   returned "gif" *)
C8_Witness ==
  \E c \in Callers :
    /\ Ended(c, "determine_content_type")
    /\ resp[c] = Completion(<<PyStr(<<"\n", "G", "I", "F", " ">>)>>)
    /\ ret[c] = Return(PyStr(GIF))

NoEdgeSpace(t) ==
  t = << >> \/ (t[1] \notin Whitespace /\ t[Len(t)] \notin Whitespace)

(* C9: image_describer returns the first choice's text with the whitespace
   at its two ends removed, and "No description available" when there is no
   choice or the remote call raised. *)
C9_DescriptionTrimmed ==
  \A c \in Callers :
    (Ended(c, "image_describer") /\ resp[c] # NoCall) =>
      /\ FirstText(resp[c]) = {} /\ resp[c] \in {Raised, Completion(<< >>)}
           => ret[c] = Return(PyStr(NoDescription))
      /\ \A s \in FirstText(resp[c]) :
           \E t \in Texts \cup {<< >>} :
             /\ ret[c] = Return(PyStr(t))
             /\ NoEdgeSpace(t)
             /\ Trims(s, t, Same)

(* C10: a thread that reads the flag of the instance it got from the slot,
   in get_instance() or in async_init(), finds a boolean: no call ends in
   an AttributeError. *)
C10_FlagPublished ==
  \A c \in Callers :
    /\ pc[c] \in {"init27", "get63"} => ReadFlag(inst[c]) # Unset
    /\ ret[c] # Raise("AttributeError")
====
